---- MODULE Spec2Model ----
(***************************************************************************)
(* Model of the AI interview bot (src/app.py and its components).          *)
(*                                                                         *)
(* One step of the wizard specification is one Streamlit script run: the   *)
(* run in which a button is pressed (its handler, up to st.rerun()), or    *)
(* the re-run that st.rerun() schedules, in which the page of current_step *)
(* is rendered.  The variables are the keys of st.session_state, the       *)
(* files of the reports directory, and history variables used to state     *)
(* the properties.                                                         *)
(*                                                                         *)
(* Values owned by the outside world are chosen nondeterministically: the  *)
(* text typed into a text area, the choice of a select box or slider, the  *)
(* answer of the generation backend, of the speech service and of the file *)
(* system.  AudioRecorder.start and stop_and_get read the clock through    *)
(* the UI toolkit (st.time()), and the frames stop_and_get finds in the     *)
(* queue are put there by the WebRTC worker: both belong to the libraries, *)
(* which are not part of src/.  The model lets Start Recording raise into  *)
(* main() (src/app.py:592-597) and lets Stop Recording raise, store None   *)
(* or store captured audio.  With a toolkit whose st.time() always raises, *)
(* only the first branch is taken and no answer can be submitted.          *)
(*                                                                         *)
(* SpecEngine calls the methods of AIEngine on their own, SpecRecorder     *)
(* runs the methods of one AudioRecorder on two threads, a step being one  *)
(* statement of a method.                                                  *)
(***************************************************************************)
EXTENDS Integers, Sequences, FiniteSets, TLC

\* ---------------------------------------------------------------- bounds

\* Question counts offered by the setup slider (environment configuration,
\* src/utils/config.py:21-22; the model checks a small configuration).
MIN_QUESTION_COUNT == 1

MAX_QUESTION_COUNT == 3

\* Number of session ids generate_session_id may hand out in one behaviour.
MaxSessions == 2

\* ------------------------------------------------------------ input sets

\* Titles of the roles of the catalogue (data/roles.json) offered by the role
\* select box; the model keeps one role.
RoleTitles == <<"Backend Developer">>

Roles == {RoleTitles[i] : i \in 1..Len(RoleTitles)}

None == "None"

\* Candidate names a user may type: empty, whitespace only, a real name.
Names == {"", " ", "Ann"}

\* Texts a user may leave in a transcript or manual-entry text area.
Texts == {"", " ", "yes", "no"}

\* The texts of a user who gives every question the same answer.
OneAnswerTexts == {"", " ", "yes"}

\* A strip() that removes nothing.
StripNothing(text) == text

\* str.strip() on the texts of the model: what is left of the text.
Strip(text) == IF text \in {"", " "} THEN "" ELSE text

\* The transcription method of the setup page (google, sphinx or whisper): it
\* is stored in the session and copied into the report, nothing branches on
\* it, and the model keeps one choice.
TranscriptionMethods == {"google"}

\* The method select box of the transcription interface.
InterfaceMethods == {"auto_transcribe", "manual_entry", "test_connection"}

\* What one automatic transcription meets (_transcribe_with_debugging): whether
\* the audio converts to WAV, whether the internet test succeeds, whether the
\* temporary file is created, and what the recogniser does: it returns a text
\* (recognised words, or nothing), raises UnknownValueError or RequestError,
\* or something else raises.
Recognitions == {"yes", "", "UnknownValueError", "RequestError", "exception"}

SpeechEnvironments ==
    [wav_ok : BOOLEAN, internet : BOOLEAN, temp_ok : BOOLEAN,
     recognition : Recognitions]

\* _transcribe_with_debugging that hands on what the recogniser returned.
TranscribeUnchecked(env) ==
    IF ~env.wav_ok THEN "ERROR: Failed to convert audio format"
    ELSE IF ~env.internet THEN "ERROR: No internet connection for Google Speech API"
    ELSE IF ~env.temp_ok THEN "ERROR: Failed to create temporary audio file"
    ELSE CASE env.recognition = "UnknownValueError" ->
                "Could not understand audio - please speak more clearly"
           [] env.recognition = "RequestError" ->
                "Google Speech Recognition API error"
           [] env.recognition = "exception" ->
                "ERROR: Transcription failed"
           [] OTHER -> env.recognition

\* _transcribe_with_debugging: the string it returns.
TranscribeWithDebugging(env) ==
    IF ~env.wav_ok THEN "ERROR: Failed to convert audio format"
    ELSE IF ~env.internet THEN "ERROR: No internet connection for Google Speech API"
    ELSE IF ~env.temp_ok THEN "ERROR: Failed to create temporary audio file"
    ELSE CASE env.recognition = "UnknownValueError" ->
                "Could not understand audio - please speak more clearly"
           [] env.recognition = "RequestError" ->
                "Google Speech Recognition API error"
           [] env.recognition = "exception" ->
                "ERROR: Transcription failed"
           [] env.recognition = "" ->
                "No speech detected in audio"
           [] OTHER -> env.recognition

\* Results of one automatic transcription: the recognised text, or one of the
\* strings that stand for a failure.
TranscribeOutcomes == {TranscribeWithDebugging(env) : env \in SpeechEnvironments}

QuestionNumbers == 1..MAX_QUESTION_COUNT

\* ------------------------------------------------------------- variables

VARIABLES
    session_id,               \* st.session_state.session_id
    current_step,
    selected_role,            \* title of the selected role, or None
    candidate_name,
    interview_introduction,
    interview_questions,
    current_question_index,
    qa_pairs,
    interview_complete,
    evaluation_results,
    start_time,               \* 0: None, 1: a clock reading
    transcription_method,     \* None while the key is absent
    is_recording,
    recorded_audio,
    transcript_q,             \* transcript_q{n}, per question number
    debug_q,                  \* debug_q{n}, per question number
    rerun,                    \* st.rerun() was called: the next run is the re-run
    ui_message,               \* the warning or error the last run showed
    typing,                   \* the texts the user may type into a text area
    call,                     \* the call of an AIEngine method made on its own
    returned,                 \* what that call returned
    recorder,                 \* an AudioRecorder and the threads that use it
    next_id,                  \* history: number of session ids generated so far
    report_files,             \* names of the files in the reports directory
    submitted,                \* history: the pair last submitted at each index of this interview
    nav                       \* history: the state before the last Next press

wizard == <<session_id, current_step, selected_role, candidate_name,
            interview_introduction, interview_questions, current_question_index,
            qa_pairs, interview_complete, evaluation_results, start_time,
            transcription_method>>

recording == <<is_recording, recorded_audio, transcript_q, debug_q>>

history == <<next_id, report_files, submitted, nav>>

vars == <<wizard, recording, rerun, ui_message, typing, call, returned, recorder,
          history>>

\* ------------------------------------------------------------ data model

NoAudio == None

NoEvaluation == [kind |-> None]

NoIntroduction == [role_title |-> None, question_count |-> 0]

\* No AIEngine method has been called on its own.
NoCall == [method |-> None]

\* AudioRecorder.__init__ (audio_handler.py:18-22), with both threads at rest:
\* main is the position of the thread that calls start and stop_and_get, cb
\* that of the WebRTC worker in audio_frame_callback.  arrived counts the frames
\* the worker has received, pending lists the frames enqueued while
\* _is_recording was true that no stop_and_get has returned yet (history).
NewRecorder ==
    [is_recording |-> FALSE, audio_queue |-> <<>>,
     main |-> "idle", frames |-> <<>>, result |-> "none", audio |-> <<>>,
     cb |-> "idle", arrived |-> 0, pending |-> <<>>]

NoNav == [tag |-> "none", index |-> 0, qa |-> <<>>]

\* A question of the static question bank: question 1 names the role, the
\* questions after the 7 base questions are those of the kind of role.
FallbackQuestion(role, n) ==
    [src |-> "fallback", n |-> n, role |-> IF n = 1 \/ n > 7 THEN role ELSE "-"]

Take(seq, n) == SubSeq(seq, 1, IF n < Len(seq) THEN n ELSE Len(seq))

\* ------------------------------------------------- AIEngine (ai_engine.py)

\* What one HTTP request of _query_huggingface_api meets: a 200 answer, a 200
\* answer whose body cannot be read (response.json() or result.get raises), a
\* 503 answer, an error status (raise_for_status raises), a status that is
\* neither 200 nor an error (raise_for_status returns), or a raised exception.
Responses ==
    {"200", "200_bad_body", "503", "error_status", "other_status", "exception"}

max_retries == 3

\* The sleeps performed are kept in order, each with the attempt it follows.
RECURSIVE QueryFrom(_, _, _)
QueryFrom(attempt, resps, slept) ==
    IF attempt >= max_retries
    THEN [result |-> "raise", requests |-> max_retries, slept |-> slept]
    ELSE LET r == resps[attempt + 1] IN
         CASE r = "200" ->
                [result |-> "text", requests |-> attempt + 1, slept |-> slept]
           [] r = "503" ->
                QueryFrom(attempt + 1, resps, Append(slept, [attempt |-> attempt,
                                         seconds |-> 10 * (attempt + 1)]))
           [] r = "other_status" ->
                QueryFrom(attempt + 1, resps, slept)
           [] OTHER ->
                IF attempt = max_retries - 1
                THEN [result |-> "raise", requests |-> attempt + 1, slept |-> slept]
                ELSE QueryFrom(attempt + 1, resps, Append(slept, [attempt |-> attempt,
                                              seconds |-> 2 ^ attempt]))

\* _query_huggingface_api without the test of the token.
QueryWithoutTokenTest(has_token, resps) == QueryFrom(0, resps, <<>>)

\* _query_huggingface_api: without a token it raises before any request.
QueryHuggingfaceApi(has_token, resps) ==
    IF ~has_token
    THEN [result |-> "raise", requests |-> 0, slept |-> <<>>]
    ELSE QueryFrom(0, resps, <<>>)

\* Kinds of line of a generated text: "Q:" followed by more than 10 characters
\* with a "?" among them, "Q:" followed by more than 10 characters without a
\* "?", "Q:" followed by at most 10, a line of more than 20 characters with a
\* "?", and any other line.
LineKinds == {"q_long", "q_long_plain", "q_short", "line_qmark", "line_plain"}

RECURSIVE ParseFrom(_, _)
ParseFrom(text, i) ==
    IF i > Len(text) THEN <<>>
    ELSE IF text[i] \in {"q_long", "q_long_plain"}
         THEN <<[src |-> IF text[i] = "q_long" THEN "api_q" ELSE "api_q_plain",
                 n |-> i, role |-> "-"]>> \o ParseFrom(text, i + 1)
         ELSE IF text[i] = "line_qmark"
              THEN <<[src |-> "api_line", n |-> i, role |-> "-"]>> \o ParseFrom(text, i + 1)
              ELSE ParseFrom(text, i + 1)

\* _parse_questions
ParseQuestions(text) == ParseFrom(text, 1)

\* Number of role-specific questions _get_fallback_questions adds to the 7
\* base questions: 3 for a title with developer/engineer, data or manager.
RoleSpecificCount(role) ==
    IF role \in {"Backend Developer", "Data Analyst", "Product Manager"} THEN 3 ELSE 0

\* _get_fallback_questions
GetFallbackQuestions(role) ==
    Take([i \in 1..(7 + RoleSpecificCount(role)) |-> FallbackQuestion(role, i)],
         MAX_QUESTION_COUNT)

\* _generate_introduction: the greeting names the role and MAX_QUESTION_COUNT.
GenerateIntroduction(role) ==
    [role_title |-> role, question_count |-> MAX_QUESTION_COUNT]

\* _generate_questions without the extension of a short list by the bank.
GenerateQuestionsUnextended(role, has_token, resps, text) ==
    IF QueryHuggingfaceApi(has_token, resps).result = "raise"
    THEN GetFallbackQuestions(role)
    ELSE Take(ParseQuestions(text), MAX_QUESTION_COUNT)

\* _generate_questions
GenerateQuestions(role, has_token, resps, text) ==
    IF QueryHuggingfaceApi(has_token, resps).result = "raise"
    THEN GetFallbackQuestions(role)
    ELSE LET parsed == ParseQuestions(text) IN
         Take(IF Len(parsed) < MIN_QUESTION_COUNT
              THEN parsed \o GetFallbackQuestions(role)
              ELSE parsed,
              MAX_QUESTION_COUNT)

\* generate_interview_content
GenerateInterviewContent(role, has_token, resps, text) ==
    [introduction |-> GenerateIntroduction(role),
     questions |-> GenerateQuestions(role, has_token, resps, text)]

\* Generated texts the backend may answer with: no line, no usable line, more
\* questions than the maximum.
LinesOf(k) == [i \in 1..k |-> IF i % 2 = 1 THEN "q_long" ELSE "line_qmark"]

BackendTexts ==
    { <<>>, <<"q_short", "line_plain">>, LinesOf(MAX_QUESTION_COUNT + 1) }

\* Sequences of answers of the backend to the requests of one call.
BackendResponses ==
    { <<"200", "200", "200">>, <<"503", "200", "200">>, <<"503", "503", "503">>,
      <<"error_status", "error_status", "error_status">>,
      <<"exception", "exception", "exception">>,
      <<"exception", "other_status", "200">>,
      <<"other_status", "other_status", "other_status">> }

\* The generation backend as one call meets it: whether the API token is
\* configured, the answers to the requests, the text of a 200 answer.
Backend(has_token, resps, text) ==
    [has_token |-> has_token, resps |-> resps, text |-> text]

Backends ==
    {Backend(FALSE, <<"200", "200", "200">>, <<>>)}
    \cup {Backend(TRUE, <<"200", "200", "200">>, text) : text \in BackendTexts}
    \cup {Backend(TRUE, resps, LinesOf(MAX_QUESTION_COUNT + 1)) :
            resps \in BackendResponses}

\* ------------------------------------------------------ session (app.py)

\* A generator that hands out the id of the current session again.
GenerateSameSessionId == session_id

\* generate_session_id: a time stamp and the first 8 digits of a uuid4; the
\* model takes every generated id to be one never generated before.
GenerateSessionId == next_id + 1

Init ==
    /\ session_id = 1
    /\ current_step = "welcome"
    /\ selected_role = None
    /\ candidate_name = ""
    /\ interview_introduction = NoIntroduction
    /\ interview_questions = <<>>
    /\ current_question_index = 0
    /\ qa_pairs = <<>>
    /\ interview_complete = FALSE
    /\ evaluation_results = NoEvaluation
    /\ start_time = 0
    /\ transcription_method = None
    /\ is_recording = FALSE
    /\ recorded_audio = NoAudio
    /\ transcript_q = [n \in QuestionNumbers |-> ""]
    /\ debug_q = [n \in QuestionNumbers |-> FALSE]
    /\ rerun = FALSE
    /\ ui_message = "none"
    /\ typing = OneAnswerTexts
    /\ call = NoCall
    /\ returned = NoCall
    /\ recorder = NewRecorder
    /\ next_id = 1
    /\ report_files = {}
    /\ submitted = {}
    /\ nav = NoNav

\* Every key but session_id is deleted, a new session id is generated and the
\* step is set; _initialize_session_state restores the defaults of the deleted
\* keys at the start of the re-run (app.py:62-81), the per-question keys and
\* the recording keys are restored where the interfaces are rendered.
DiscardSession(step) ==
    /\ next_id < MaxSessions
    /\ session_id' = GenerateSessionId
    /\ next_id' = next_id + 1
    /\ current_step' = step
    /\ selected_role' = None
    /\ candidate_name' = ""
    /\ interview_introduction' = NoIntroduction
    /\ interview_questions' = <<>>
    /\ current_question_index' = 0
    /\ qa_pairs' = <<>>
    /\ interview_complete' = FALSE
    /\ evaluation_results' = NoEvaluation
    /\ start_time' = 0
    /\ transcription_method' = None
    /\ is_recording' = FALSE
    /\ recorded_audio' = NoAudio
    /\ transcript_q' = [n \in QuestionNumbers |-> ""]
    /\ debug_q' = [n \in QuestionNumbers |-> FALSE]
    /\ rerun' = TRUE
    /\ ui_message' = "none"
    /\ submitted' = {}
    /\ nav' = NoNav
    /\ UNCHANGED <<typing, call, returned, recorder, report_files>>

\* A handler that only sets current_step and calls st.rerun().
GoToStep(step) ==
    /\ current_step' = step
    /\ rerun' = TRUE
    /\ ui_message' = "none"
    /\ nav' = NoNav
    /\ UNCHANGED <<typing, call, returned, recorder, session_id, selected_role, candidate_name, interview_introduction,
                   interview_questions, current_question_index, qa_pairs,
                   interview_complete, evaluation_results, start_time,
                   transcription_method, recording, next_id, report_files,
                   submitted>>

\* _render_sidebar: the four navigation buttons, shown on every page.
SidebarStartNewInterview ==
    /\ ~rerun
    /\ DiscardSession("interview_setup")

SidebarHome ==
    /\ ~rerun
    /\ GoToStep("welcome")

SidebarViewReports ==
    /\ ~rerun
    /\ GoToStep("view_reports")

\* A Reset Session that spares current_step along with session_id.
SidebarResetKeepsStep ==
    /\ ~rerun
    /\ DiscardSession(current_step)

SidebarResetSession ==
    /\ ~rerun
    /\ DiscardSession("welcome")

\* The welcome button opening the interview itself instead of its setup.
WelcomeStartsInterview ==
    /\ ~rerun
    /\ current_step = "welcome"
    /\ GoToStep("interview_process")

\* _render_welcome_page: the button keeps the session and opens the setup page.
WelcomeStartNewInterview ==
    /\ ~rerun
    /\ current_step = "welcome"
    /\ GoToStep("interview_setup")

\* _render_interview_setup: text typed into the candidate name input.
EnterCandidateName ==
    /\ ~rerun
    /\ current_step = "interview_setup"
    /\ \E name \in Names : candidate_name' = name
    /\ ui_message' = "none"
    /\ UNCHANGED <<typing, call, returned, recorder, session_id, current_step, selected_role, interview_introduction,
                   interview_questions, current_question_index, qa_pairs,
                   interview_complete, evaluation_results, start_time,
                   transcription_method, recording, rerun, history>>

\* _render_interview_setup: a choice in the role select box.
SelectRole ==
    /\ ~rerun
    /\ current_step = "interview_setup"
    /\ \E role \in Roles : selected_role' = role
    /\ ui_message' = "none"
    /\ UNCHANGED <<typing, call, returned, recorder, session_id, current_step, candidate_name, interview_introduction,
                   interview_questions, current_question_index, qa_pairs,
                   interview_complete, evaluation_results, start_time,
                   transcription_method, recording, rerun, history>>

\* The state written by a successful Generate & Start (app.py:295-310).
StartInterview(question_count, method, has_token, resps, text) ==
    LET content == GenerateInterviewContent(selected_role, has_token, resps, text) IN
    /\ interview_introduction' = content.introduction
    /\ interview_questions' = Take(content.questions, question_count)
    /\ transcription_method' = method
    /\ start_time' = 1
    /\ current_step' = "interview_process"
    /\ rerun' = TRUE
    /\ ui_message' = IF QueryHuggingfaceApi(has_token, resps).result = "raise"
                     THEN "warning: using fallback questions"
                     ELSE "none"
    /\ nav' = NoNav
    /\ submitted' = {}
    /\ UNCHANGED <<typing, call, returned, recorder, session_id, selected_role, candidate_name, current_question_index,
                   qa_pairs, interview_complete, evaluation_results, recording,
                   next_id, report_files>>

\* The blank-name branch of Generate & Start (app.py:288-290).
WarnBlankName ==
    /\ ui_message' = "warning: enter the candidate's name"
    /\ UNCHANGED <<wizard, recording, rerun, typing, call, returned, recorder, history>>

\* _render_interview_setup: the Generate Questions & Start Interview button,
\* pressed with the slider at question_count, the transcription select box at
\* method, and the generation backend behaving as backend.
GenerateAndStartWith(question_count, method, backend) ==
    /\ ~rerun
    /\ current_step = "interview_setup"
    /\ IF Strip(candidate_name) = ""
       THEN WarnBlankName
       ELSE StartInterview(question_count, method, backend.has_token,
                           backend.resps, backend.text)

GenerateAndStart ==
    \E question_count \in MIN_QUESTION_COUNT..MAX_QUESTION_COUNT,
       method \in TranscriptionMethods,
       backend \in Backends :
         GenerateAndStartWith(question_count, method, backend)

\* ------------------------------------------------ completion (app.py:407)

\* save_report names the file after the session id and the role title.
ReportFileName == <<session_id, selected_role>>

\* What evaluate_responses returns: the computed evaluation, or its own
\* fallback when _generate_evaluation_report raises, which it does exactly
\* when there is no answer (the division by len(qa_pairs), ai_engine.py:313).
EvaluationKinds(qa) ==
    IF qa = <<>> THEN {"engine_fallback"} ELSE {"computed"}

\* How the try block of _complete_interview ends: the report is saved, building
\* the report raises, or save_report raises because the file cannot be written.
CompletionOutcomes == {"saved", "build_raises", "save_raises"}

\* The error of the except branch (app.py:450): it names the exception, which
\* for a failed save is the one save_report raises (report_generator.py:67).
FailureMessage(outcome) ==
    IF outcome = "save_raises"
    THEN "error: failed to generate evaluation: failed to save report"
    ELSE "error: failed to generate evaluation"

\* _complete_interview with an except branch that only reports the failure.
CompleteInterviewReportsFailure(qa, kind, outcome) ==
    /\ interview_complete' = TRUE
    /\ IF outcome = "saved"
       THEN /\ evaluation_results' = [kind |-> kind]
            /\ report_files' = report_files \cup {ReportFileName}
            /\ ui_message' = "none"
            /\ current_step' = "interview_complete"
       ELSE /\ evaluation_results' = [kind |-> kind]
            /\ ui_message' = FailureMessage(outcome)
            /\ UNCHANGED <<report_files, current_step>>
    /\ rerun' = TRUE

\* _complete_interview, run on the answers qa.
CompleteInterview(qa, kind, outcome) ==
    /\ interview_complete' = TRUE
    /\ IF outcome = "saved"
       THEN /\ evaluation_results' = [kind |-> kind]
            /\ report_files' = report_files \cup {ReportFileName}
            /\ ui_message' = "none"
       ELSE /\ evaluation_results' = [kind |-> "app_fallback"]
            /\ ui_message' = FailureMessage(outcome)
            /\ UNCHANGED report_files
    /\ current_step' = "interview_complete"
    /\ rerun' = TRUE

\* --------------------------------------- interview process (app.py:315)

\* The question number the interfaces are keyed by (current_index + 1).
QuestionNumber == current_question_index + 1

InProgress ==
    /\ ~rerun
    /\ current_step = "interview_process"
    /\ current_question_index < Len(interview_questions)

\* create_recording_interface: has_recording and duration of its result.
HasRecording == recorded_audio # NoAudio

\* The duration is the number of samples of the recorded audio over 48000.
Duration == IF recorded_audio # NoAudio THEN <<"seconds of", recorded_audio>> ELSE <<"0">>

\* create_recording_interface, Start Recording: the flag is set, then
\* AudioRecorder.start() and the unimported time.time() raise into main().
StartRecording ==
    /\ InProgress
    /\ ~is_recording
    /\ is_recording' = TRUE
    /\ ui_message' = "error: application error"
    /\ UNCHANGED <<typing, call, returned, recorder, wizard, recorded_audio, transcript_q, debug_q, rerun, history>>

\* What stop_and_get hands to stop_recording: it raises, it returns None (no
\* frame was queued), or it returns the captured audio.
CapturedAudio == {NoAudio, "clip"}

\* create_recording_interface, Stop Recording.
StopRecording ==
    /\ InProgress
    /\ is_recording
    /\ is_recording' = FALSE
    /\ \/ /\ ui_message' = "error: application error"
          /\ UNCHANGED recorded_audio
       \/ /\ ui_message' = "none"
          /\ \E audio \in CapturedAudio : recorded_audio' = audio
    /\ UNCHANGED <<typing, call, returned, recorder, wizard, transcript_q, debug_q, rerun, history>>

\* _auto_transcription_interface, Start Transcription.
StartTranscription ==
    /\ InProgress
    /\ HasRecording
    /\ debug_q' = [debug_q EXCEPT ![QuestionNumber] = TRUE]
    /\ rerun' = TRUE
    /\ ui_message' = "none"
    /\ UNCHANGED <<typing, call, returned, recorder, wizard, is_recording, recorded_audio, transcript_q, history>>

\* _auto_transcription_interface, Retry.
RetryTranscription ==
    /\ InProgress
    /\ HasRecording
    /\ transcript_q[QuestionNumber] # ""
    /\ transcript_q' = [transcript_q EXCEPT ![QuestionNumber] = ""]
    /\ debug_q' = [debug_q EXCEPT ![QuestionNumber] = TRUE]
    /\ rerun' = TRUE
    /\ ui_message' = "none"
    /\ UNCHANGED <<typing, call, returned, recorder, wizard, is_recording, recorded_audio, history>>

\* create_transcription_interface: the text it returns for the method chosen
\* in its select box and the text left in the text area it shows.
Transcript(method, typed) ==
    CASE method = "manual_entry" -> typed
      [] method = "test_connection" -> transcript_q[QuestionNumber]
      [] OTHER -> IF transcript_q[QuestionNumber] # "" THEN typed ELSE ""

\* The texts a text area may hold: typed ones, or the stored transcript.
TypedTexts == typing \cup {transcript_q[QuestionNumber]}

\* The pair both navigation buttons build from the transcript (app.py:362-387).
QAPair(transcript) ==
    [question |-> interview_questions[current_question_index + 1],
     answer |-> transcript,
     duration |-> Duration]

\* SaveAnswer without the update branch: the pair is always appended.
SaveAnswerAlwaysAppends(pairs, index, pair) == Append(pairs, pair)

\* SaveAnswer without the append branch: a new answer is not stored.
SaveAnswerNeverAppends(pairs, index, pair) ==
    IF index < Len(pairs)
    THEN [pairs EXCEPT ![index + 1] = pair]
    ELSE pairs

\* Update or append the pair of the current question (app.py:361-372, 390-393).
SaveAnswer(pairs, index, pair) ==
    IF index < Len(pairs)
    THEN [pairs EXCEPT ![index + 1] = pair]
    ELSE Append(pairs, pair)

\* History of the submissions: the pair last submitted at each index.
Submit(index, pair) ==
    {e \in submitted : e.index # index} \cup {[index |-> index, pair |-> pair]}

\* The index after Previous Question (app.py:374) and after Next Question
\* (app.py:397).
PreviousIndexKept(index) == index

\* A Previous that steps back over two questions.
PreviousIndexByTwo(index) == index - 2

PreviousIndex(index) == index - 1

NextIndex(index) == index + 1

\* _render_interview_process, Previous Question.
PreviousQuestion ==
    /\ InProgress
    /\ HasRecording
    /\ current_question_index > 0
    /\ \E method \in InterfaceMethods, typed \in TypedTexts :
         LET transcript == Transcript(method, typed) IN
         /\ Strip(transcript) # ""
         /\ qa_pairs' = SaveAnswer(qa_pairs, current_question_index, QAPair(transcript))
         /\ submitted' = Submit(current_question_index, QAPair(transcript))
    /\ current_question_index' = PreviousIndex(current_question_index)
    /\ rerun' = TRUE
    /\ ui_message' = "none"
    /\ nav' = IF nav.tag = "next"
              THEN [nav EXCEPT !.tag = "next_previous"]
              ELSE NoNav
    /\ UNCHANGED <<typing, call, returned, recorder, session_id, current_step, selected_role, candidate_name,
                   interview_introduction, interview_questions, interview_complete,
                   evaluation_results, start_time, transcription_method, recording,
                   next_id, report_files>>

\* _render_interview_process, Next Question: the button of every question but
\* the last.
NextQuestion ==
    /\ InProgress
    /\ HasRecording
    /\ current_question_index < Len(interview_questions) - 1
    /\ \E method \in InterfaceMethods, typed \in TypedTexts :
         LET transcript == Transcript(method, typed) IN
         /\ Strip(transcript) # ""
         /\ qa_pairs' = SaveAnswer(qa_pairs, current_question_index, QAPair(transcript))
         /\ submitted' = Submit(current_question_index, QAPair(transcript))
    /\ current_question_index' = NextIndex(current_question_index)
    /\ rerun' = TRUE
    /\ ui_message' = "none"
    /\ nav' = [tag |-> "next", index |-> current_question_index, qa |-> qa_pairs]
    /\ UNCHANGED <<typing, call, returned, recorder, session_id, current_step, selected_role, candidate_name,
                   interview_introduction, interview_questions, interview_complete,
                   evaluation_results, start_time, transcription_method, recording,
                   next_id, report_files>>

\* _render_interview_process, Complete Interview: the same button on the last
\* question; it saves the answer and runs _complete_interview.
CompleteLastQuestion ==
    /\ InProgress
    /\ HasRecording
    /\ current_question_index >= Len(interview_questions) - 1
    /\ \E method \in InterfaceMethods, typed \in TypedTexts :
         LET transcript == Transcript(method, typed) IN
         /\ Strip(transcript) # ""
         /\ qa_pairs' = SaveAnswer(qa_pairs, current_question_index, QAPair(transcript))
         /\ submitted' = Submit(current_question_index, QAPair(transcript))
    /\ \E kind \in EvaluationKinds(qa_pairs'), outcome \in CompletionOutcomes :
         CompleteInterview(qa_pairs', kind, outcome)
    /\ nav' = NoNav
    /\ UNCHANGED <<typing, call, returned, recorder, session_id, selected_role, candidate_name, interview_introduction,
                   interview_questions, current_question_index, start_time,
                   transcription_method, recording, next_id>>

\* ----------------------------------------- completion page (app.py:461)

CompleteStartNewInterview ==
    /\ ~rerun
    /\ current_step = "interview_complete"
    /\ DiscardSession("welcome")

CompleteViewAllReports ==
    /\ ~rerun
    /\ current_step = "interview_complete"
    /\ GoToStep("view_reports")

\* ------------------------------------------------------------ the re-run

\* run(), in the script run that st.rerun() scheduled: no button is pressed,
\* the page of current_step is rendered.
RerunSetup ==
    /\ current_step = "interview_setup"
    /\ \E role \in Roles : selected_role' = role
    /\ rerun' = FALSE
    /\ ui_message' = "none"
    /\ UNCHANGED <<typing, call, returned, recorder, session_id, current_step, candidate_name, interview_introduction,
                   interview_questions, current_question_index, qa_pairs,
                   interview_complete, evaluation_results, start_time,
                   transcription_method, recording, history>>

\* _render_interview_process without a button: the pending transcription of
\* _auto_transcription_interface (speech_processor.py:149-154) is performed.
RerunQuestion ==
    /\ current_step = "interview_process"
    /\ current_question_index < Len(interview_questions)
    /\ IF HasRecording /\ debug_q[QuestionNumber] /\ transcript_q[QuestionNumber] = ""
       THEN /\ \E transcript \in TranscribeOutcomes :
                 transcript_q' = [transcript_q EXCEPT ![QuestionNumber] = transcript]
            /\ debug_q' = [debug_q EXCEPT ![QuestionNumber] = FALSE]
            /\ rerun' = TRUE
       ELSE /\ rerun' = FALSE
            /\ UNCHANGED <<transcript_q, debug_q>>
    /\ ui_message' = "none"
    /\ UNCHANGED <<typing, call, returned, recorder, wizard, is_recording, recorded_audio, history>>

\* _render_interview_process with the index past the questions (app.py:403-405).
RerunAllQuestionsCompleted ==
    /\ current_step = "interview_process"
    /\ current_question_index >= Len(interview_questions)
    /\ \E kind \in EvaluationKinds(qa_pairs), outcome \in CompletionOutcomes :
         CompleteInterview(qa_pairs, kind, outcome)
    /\ UNCHANGED <<typing, call, returned, recorder, session_id, selected_role, candidate_name, interview_introduction,
                   interview_questions, current_question_index, qa_pairs, start_time,
                   transcription_method, recording, next_id, submitted, nav>>

RerunOtherPage ==
    /\ current_step \in {"welcome", "interview_complete", "view_reports"}
    /\ rerun' = FALSE
    /\ ui_message' = "none"
    /\ UNCHANGED <<typing, call, returned, recorder, wizard, recording, history>>

ScriptRerun ==
    /\ rerun
    /\ \/ RerunSetup
       \/ RerunQuestion
       \/ RerunAllQuestionsCompleted
       \/ RerunOtherPage

Next ==
    \/ SidebarStartNewInterview
    \/ SidebarHome
    \/ SidebarViewReports
    \/ SidebarResetSession
    \/ WelcomeStartNewInterview
    \/ EnterCandidateName
    \/ SelectRole
    \/ GenerateAndStart
    \/ StartRecording
    \/ StopRecording
    \/ PreviousQuestion
    \/ NextQuestion
    \/ CompleteLastQuestion
    \/ CompleteStartNewInterview
    \/ CompleteViewAllReports
    \/ ScriptRerun

Spec == Init /\ [][Next]_vars

\* ------------------------------------------ navigation within an interview

\* An interview that has just been started in a new session, shown on its
\* first question, with a user who may type different answers.
InitNavigation ==
    /\ session_id = 1
    /\ current_step = "interview_process"
    /\ selected_role = RoleTitles[1]
    /\ candidate_name = "Ann"
    /\ interview_introduction = GenerateIntroduction(RoleTitles[1])
    /\ \E question_count \in MIN_QUESTION_COUNT..MAX_QUESTION_COUNT,
          backend \in Backends :
         interview_questions =
             Take(GenerateQuestions(RoleTitles[1], backend.has_token,
                                    backend.resps, backend.text),
                  question_count)
    /\ current_question_index = 0
    /\ qa_pairs = <<>>
    /\ interview_complete = FALSE
    /\ evaluation_results = NoEvaluation
    /\ start_time = 1
    /\ transcription_method \in TranscriptionMethods
    /\ is_recording = FALSE
    /\ recorded_audio = NoAudio
    /\ transcript_q = [n \in QuestionNumbers |-> ""]
    /\ debug_q = [n \in QuestionNumbers |-> FALSE]
    /\ rerun = FALSE
    /\ ui_message = "none"
    /\ typing = Texts
    /\ call = NoCall
    /\ returned = NoCall
    /\ recorder = NewRecorder
    /\ next_id = 1
    /\ report_files = {}
    /\ submitted = {}
    /\ nav = NoNav

\* The re-runs of an interview in progress and of its completion page.
RerunInterview ==
    /\ rerun
    /\ \/ RerunQuestion
       \/ RerunOtherPage

NextNavigation ==
    \/ StartRecording
    \/ StopRecording
    \/ PreviousQuestion
    \/ NextQuestion
    \/ CompleteLastQuestion
    \/ RerunInterview

SpecNavigation == InitNavigation /\ [][NextNavigation]_vars

\* ================================================================ claims

\* A step in which _complete_interview runs.
CompletionRuns == CompleteLastQuestion \/ (rerun /\ RerunAllQuestionsCompleted)

C2_OverwriteByIndex ==
    /\ Cardinality(submitted) = Len(qa_pairs)
    /\ \A e \in submitted :
         /\ e.index < Len(qa_pairs)
         /\ qa_pairs[e.index + 1] = e.pair

\* An answered index has been submitted again with another answer.
C2_Witness ==
    /\ nav.tag = "next"
    /\ nav.index < Len(nav.qa)
    /\ nav.qa[nav.index + 1].answer # qa_pairs[nav.index + 1].answer
    /\ Len(qa_pairs) = Len(interview_questions)

C5_BlankNameBlocksStart ==
    [][ /\ (current_step # "interview_process" /\ current_step' = "interview_process")
            => /\ current_step = "interview_setup"
               /\ candidate_name \notin {"", " "}
               /\ selected_role \in Roles
        /\ (candidate_name \in {"", " "} /\ GenerateAndStart)
            => /\ ui_message' = "warning: enter the candidate's name"
               /\ UNCHANGED <<current_step, interview_questions,
                              interview_introduction, start_time>>
      ]_vars

\* Generate & Start was pressed with a whitespace-only name.
C5_Witness ==
    /\ current_step = "interview_setup"
    /\ candidate_name = " "
    /\ ui_message = "warning: enter the candidate's name"

\* The backends of a failed generation: the request raises (no token, an
\* exception or an error status on the last attempt, no 200 answer in
\* max_retries attempts) or no question can be parsed from the text.
FailingBackends ==
    {b \in Backends :
        \/ ~b.has_token
        \/ \A i \in 1..max_retries : b.resps[i] # "200"
        \/ \A i \in 1..Len(b.text) : b.text[i] \in {"q_short", "line_plain"}}

\* C6: with a non-blank name and a role, Generate & Start pressed while the
\* generation fails ends in interview_process with the static introduction and
\* the first question_count questions of the static bank.
C6_GenerationFailureStartsWithFallback ==
    [][ (current_step = "interview_setup" /\ candidate_name \notin {"", " "})
        => \A question_count \in MIN_QUESTION_COUNT..MAX_QUESTION_COUNT,
              method \in TranscriptionMethods,
              backend \in FailingBackends :
             GenerateAndStartWith(question_count, method, backend)
             => /\ current_step' = "interview_process"
                /\ Len(interview_questions') = question_count
                /\ \A n \in 1..question_count :
                     interview_questions'[n] = FallbackQuestion(selected_role, n)
                /\ interview_introduction'.role_title = selected_role
      ]_vars

\* An interview started on the static questions after the request failed.
C6_Witness ==
    /\ current_step = "interview_process"
    /\ rerun
    /\ ui_message = "warning: using fallback questions"
    /\ Len(interview_questions) = MAX_QUESTION_COUNT
    /\ \A n \in 1..MAX_QUESTION_COUNT : interview_questions[n].src = "fallback"

\* C7: every run of _complete_interview, the one of the Complete Interview
\* button on the last question included, sets current_step to
\* interview_complete and evaluation_results to an evaluation;
\* when evaluation, report building or saving fails, that is a fallback
\* evaluation.
C7_CompletionAlwaysReached ==
    [][ CompletionRuns
          => /\ current_step' = "interview_complete"
             /\ interview_complete'
             /\ evaluation_results'.kind \in {"computed", "engine_fallback", "app_fallback"}
             /\ ui_message' # "none" => evaluation_results'.kind = "app_fallback"
      ]_vars

\* A completion whose report could not be built or saved.
C7_Witness ==
    /\ current_step = "interview_complete"
    /\ rerun
    /\ ui_message = "error: failed to generate evaluation"
    /\ evaluation_results.kind = "app_fallback"
    /\ Len(qa_pairs) = Len(interview_questions)

SessionDiscarded ==
    /\ candidate_name = ""
    /\ selected_role = None
    /\ interview_introduction = NoIntroduction
    /\ interview_questions = <<>>
    /\ qa_pairs = <<>>
    /\ current_question_index = 0
    /\ interview_complete = FALSE
    /\ evaluation_results = NoEvaluation

\* C9, as claimed: both Start New Interview buttons discard the session,
\* generate a session id different from the previous one and enter welcome.
C9_NewInterviewEntersWelcome ==
    [][ (SidebarStartNewInterview \/ CompleteStartNewInterview)
          => /\ SessionDiscarded'
             /\ session_id' # session_id
             /\ current_step' = "welcome"
      ]_vars

\* C9, amended: both Start New Interview buttons discard the session and
\* generate a session id different from the previous one; the button of the
\* completion page enters welcome, the button of the sidebar enters
\* interview_setup.
C9_NewInterviewDiscardsSession ==
    [][ /\ SidebarStartNewInterview
          => /\ SessionDiscarded'
             /\ session_id' # session_id
             /\ current_step' = "interview_setup"
        /\ CompleteStartNewInterview
          => /\ SessionDiscarded'
             /\ session_id' # session_id
             /\ current_step' = "welcome"
      ]_vars

\* A new session on the setup page, after a session that saved a report.
C9_Witness ==
    /\ current_step = "interview_setup"
    /\ rerun
    /\ SessionDiscarded
    /\ session_id # 1
    /\ report_files # {}

DisplayedReport ==
    [session_id |-> session_id,
     candidate_name |-> candidate_name,
     role_title |-> selected_role,
     qa_pairs |-> qa_pairs,
     evaluation |-> evaluation_results]

InitTranscription ==
    /\ session_id = 1
    /\ current_step = "interview_process"
    /\ selected_role = RoleTitles[1]
    /\ candidate_name = "Ann"
    /\ interview_introduction = GenerateIntroduction(RoleTitles[1])
    /\ \E question_count \in MIN_QUESTION_COUNT..MAX_QUESTION_COUNT :
         interview_questions = Take(GetFallbackQuestions(RoleTitles[1]), question_count)
    /\ current_question_index = 0
    /\ qa_pairs = <<>>
    /\ interview_complete = FALSE
    /\ evaluation_results = NoEvaluation
    /\ start_time = 1
    /\ transcription_method \in TranscriptionMethods
    /\ is_recording = FALSE
    /\ recorded_audio = "clip"
    /\ transcript_q = [n \in QuestionNumbers |-> ""]
    /\ debug_q = [n \in QuestionNumbers |-> FALSE]
    /\ rerun = FALSE
    /\ ui_message = "none"
    /\ typing = {""}
    /\ call = NoCall
    /\ returned = NoCall
    /\ recorder = NewRecorder
    /\ next_id = 1
    /\ report_files = {}
    /\ submitted = {}
    /\ nav = NoNav

NextTranscription ==
    \/ StartTranscription
    \/ RetryTranscription
    \/ NextQuestion
    \/ CompleteLastQuestion
    \/ RerunInterview

SpecTranscription == InitTranscription /\ [][NextTranscription]_vars

\* The run that performs the pending transcription of the current question.
TranscriptionRuns ==
    /\ rerun
    /\ RerunQuestion
    /\ HasRecording
    /\ debug_q[QuestionNumber]
    /\ transcript_q[QuestionNumber] = ""

\* C12: every automatic transcription attempt stores a non-blank transcript
\* for its question and schedules the re-run that shows it; and whenever the
\* page of a question with a stored transcript is shown, the Next or Complete
\* button can be pressed.
C12_TranscriptionNeverBlocks ==
    [][ /\ TranscriptionRuns
          => /\ transcript_q'[QuestionNumber] \notin {"", " "}
             /\ ~debug_q'[QuestionNumber]
             /\ rerun'
        /\ (InProgress /\ HasRecording /\ transcript_q[QuestionNumber] # "")
          => ENABLED (NextQuestion \/ CompleteLastQuestion)
      ]_vars

\* The page of the last question, showing the placeholder of a failed
\* transcription, after an earlier question was answered the same way.
C12_Witness ==
    /\ InProgress
    /\ current_question_index = Len(interview_questions) - 1
    /\ current_question_index > 0
    /\ transcript_q[QuestionNumber] = "ERROR: No internet connection for Google Speech API"
    /\ qa_pairs[1].answer = "No speech detected in audio"

\* ------------------------------------------------ AIEngine called alone

\* A script run in which a button of the sidebar is pressed.
SidebarAction ==
    \/ SidebarStartNewInterview
    \/ SidebarHome
    \/ SidebarViewReports
    \/ SidebarResetSession

\* C22: current_step becomes interview_process only from interview_setup,
\* through Generate & Start, and becomes interview_complete only from
\* interview_process, through _complete_interview; no sidebar action enters
\* either step.
C22_StepsInOrder ==
    [][/\ (current_step' = "interview_process" /\ current_step # "interview_process")
          => (current_step = "interview_setup" /\ GenerateAndStart)
       /\ (current_step' = "interview_complete" /\ current_step # "interview_complete")
          => (current_step = "interview_process" /\ CompletionRuns)
       /\ SidebarAction
          => current_step' \notin {"interview_process", "interview_complete"}]_vars

\* An interview that went through setup and process to its completion.
C22_Witness ==
    /\ current_step = "interview_complete"
    /\ interview_complete
    /\ start_time = 1
    /\ Len(qa_pairs) = Len(interview_questions)
    /\ interview_questions # <<>>

\* C23: current_question_index is never negative: Previous is possible only
\* when the index is greater than 0 and decrements it by exactly 1, and no
\* other action decreases it except a reset to 0.
C23_IndexNeverNegative ==
    [][/\ current_question_index' >= 0
       /\ PreviousQuestion =>
            /\ current_question_index > 0
            /\ current_question_index' = current_question_index - 1
       /\ current_question_index' < current_question_index =>
            PreviousQuestion \/ current_question_index' = 0]_vars

\* Previous has taken the interview back to its first question.
C23_Witness ==
    /\ nav.tag = "next_previous"
    /\ nav.index = 0
    /\ current_question_index = 0
    /\ current_step = "interview_process"

C27_ProcessHasItsInterview ==
    current_step = "interview_process" =>
        /\ candidate_name \notin {"", " "}
        /\ selected_role # None
        /\ interview_questions # <<>>
        /\ start_time # 0

\* An interview in progress in a session that a sidebar action has opened.
C27_Witness ==
    /\ current_step = "interview_process"
    /\ ~rerun
    /\ session_id > 1
    /\ candidate_name = "Ann"
    /\ Len(interview_questions) = MAX_QUESTION_COUNT

\* C28: the number of questions announced in interview_introduction equals the
\* number of questions in interview_questions of the interview it introduces,
\* for every question count of the slider and every backend outcome.
C28_IntroductionAnnouncesCount ==
    current_step = "interview_process" =>
        interview_introduction.question_count = Len(interview_questions)

\* session_data.get(key, default)
Get(session_data, key, default) ==
    IF key \in DOMAIN session_data THEN session_data[key] ELSE default

\* st.session_state.total_duration: set by _complete_interview when start_time
\* is set (app.py:413-415), 0 while the key is absent.
TotalDuration == IF start_time # 0 THEN "minutes since start_time" ELSE "0"

\* generate_comprehensive_report, without its two timestamps.
GenerateComprehensiveReport(session_data, role, qa, evaluation) ==
    [session_info |->
         [session_id |-> session_data.session_id,
          role_title |-> role,
          candidate_name |-> Get(session_data, "candidate_name", "Anonymous"),
          total_questions |-> Len(qa),
          total_duration |-> Get(session_data, "total_duration", "0")],
     role_information |-> role,
     interview_data |->
         [questions_and_answers |-> qa,
          transcription_method |->
              Get(session_data, "transcription_method", "google")],
     evaluation_results |-> evaluation,
     metadata |->
         [version |-> "1.0",
          ai_model_used |-> Get(session_data, "ai_model", "fallback")]]

\* The report _complete_interview builds and saves (app.py:426-444).
SavedReport ==
    GenerateComprehensiveReport(
        [session_id |-> session_id,
         candidate_name |-> candidate_name,
         total_duration |-> TotalDuration,
         transcription_method |-> transcription_method,
         ai_model |-> "huggingface"],
        selected_role, qa_pairs, evaluation_results)

\* The report the completion page builds, displays and offers for download
\* (app.py:483-516).
DownloadableReport ==
    GenerateComprehensiveReport(
        [session_id |-> session_id,
         candidate_name |-> candidate_name,
         total_duration |-> TotalDuration,
         transcription_method |-> transcription_method],
        selected_role, qa_pairs, evaluation_results)

InitEngine == Init

\* The answers of the backend to the requests of one call.
ResponseSequences == [1..max_retries -> Responses]

\* A call of _query_huggingface_api.
CallQueryHuggingfaceApi ==
    /\ call = NoCall
    /\ \E has_token \in BOOLEAN, resps \in ResponseSequences :
         /\ call' = [method |-> "_query_huggingface_api",
                     has_token |-> has_token, resps |-> resps]
         /\ returned' = QueryHuggingfaceApi(has_token, resps)
    /\ UNCHANGED <<wizard, recording, rerun, ui_message, typing, recorder, history>>

\* The positions of the 200 answers of a call, readable or not.
Answers200(resps) == {i \in 1..max_retries : resps[i] \in {"200", "200_bad_body"}}

\* The positions of the 200 answers whose body can be read.
Readable200(resps) == {i \in 1..max_retries : resps[i] = "200"}

First(positions) == CHOOSE i \in positions : \A j \in positions : i <= j

\* C13, as claimed: a call issues at most 3 requests, returns at the first 200
\* answer without a further request, and otherwise fails after the third
\* attempt.
C13_ReturnsAtFirst200 ==
    call.method = "_query_huggingface_api" =>
        /\ returned.requests <= 3
        /\ Answers200(call.resps) # {}
             => /\ returned.result = "text"
                /\ returned.requests = First(Answers200(call.resps))
        /\ Answers200(call.resps) = {}
             => /\ returned.result = "raise"
                /\ returned.requests = 3

\* C13, amended: a call issues at most 3 requests; with a token configured it
\* returns at the first 200 answer whose body can be read, without a further
\* request, and otherwise fails after the third attempt; without a token it
\* fails before any request.
C13_BoundedAttempts ==
    call.method = "_query_huggingface_api" =>
        /\ returned.requests <= 3
        /\ (call.has_token /\ Readable200(call.resps) # {})
             => /\ returned.result = "text"
                /\ returned.requests = First(Readable200(call.resps))
        /\ (call.has_token /\ Readable200(call.resps) = {})
             => /\ returned.result = "raise"
                /\ returned.requests = 3
        /\ ~call.has_token
             => /\ returned.result = "raise"
                /\ returned.requests = 0

\* A call that met an unreadable 200 answer and a 503 answer before the
\* answer it returned.
C13_Witness ==
    /\ call.method = "_query_huggingface_api"
    /\ call.has_token
    /\ call.resps = <<"200_bad_body", "503", "200">>
    /\ returned.result = "text"
    /\ returned.requests = 3

\* The question list of an interview started with the slider at question_count
\* (app.py:296-301).
InterviewQuestions(role, question_count, has_token, resps, text) ==
    Take(GenerateInterviewContent(role, has_token, resps, text).questions,
         question_count)

\* Whether a question contains a "?": of the static bank the questions 2, 4
\* and 6 do, and of the three questions added for a role the second of a
\* developer or engineer, the first two of a data role and the first of a
\* manager (ai_engine.py:158-188).
HasQuestionMark(question) ==
    CASE question.src = "api_q" -> TRUE
      [] question.src = "api_line" -> TRUE
      [] question.src = "api_q_plain" -> FALSE
      [] OTHER -> \/ question.n \in {2, 4, 6}
                  \/ question.n = 9 /\ question.role = "Backend Developer"
                  \/ question.n \in {8, 9} /\ question.role = "Data Analyst"
                  \/ question.n = 8 /\ question.role = "Product Manager"

\* Roles of the catalogue an AIEngine method may be called with: a developer,
\* a data role, a manager, and a role of none of these kinds.
EngineRoles == {"Backend Developer", "Data Analyst", "Product Manager", "UX Designer"}

\* Generated texts of up to MAX_QUESTION_COUNT + 1 lines.
GeneratedTexts ==
    UNION {[1..k -> LineKinds] : k \in 0..(MAX_QUESTION_COUNT + 1)}

\* A call of generate_interview_content for an interview of question_count
\* questions.
CallGenerateInterviewContent ==
    /\ call = NoCall
    /\ \E role \in EngineRoles,
          question_count \in MIN_QUESTION_COUNT..MAX_QUESTION_COUNT,
          has_token \in BOOLEAN,
          resps \in BackendResponses,
          text \in GeneratedTexts :
         /\ call' = [method |-> "generate_interview_content", role |-> role,
                     question_count |-> question_count, has_token |-> has_token,
                     resps |-> resps, text |-> text]
         /\ returned' = [questions |-> InterviewQuestions(role, question_count,
                                                          has_token, resps, text)]
    /\ UNCHANGED <<wizard, recording, rerun, ui_message, typing, recorder, history>>

\* C14: for every role, every selectable question count N and every backend
\* outcome, the question list of the interview has exactly N entries and each
\* contains a "?".
C14_ExactlyNQuestions ==
    call.method = "generate_interview_content" =>
        /\ Len(returned.questions) = call.question_count
        /\ \A n \in 1..Len(returned.questions) :
             HasQuestionMark(returned.questions[n])

\* The attempts (counted from 0, as the code does) a call has made.
AttemptsMade == 0..(returned.requests - 1)

\* The sleeps a query performs after its attempt of the given index.
WaitsAfter(query, attempt) ==
    {query.slept[i].seconds :
        i \in {j \in 1..Len(query.slept) : query.slept[j].attempt = attempt}}

\* C21: every retry is preceded by a wait that increases with the attempt
\* index; the wait after a 503 is strictly longer than the wait after any other
\* failed attempt of the same index; any other non-200 response is a failure of
\* its attempt.
C21_WaitBeforeEveryRetry ==
    (call.method = "_query_huggingface_api" /\ call.has_token) =>
        /\ \A attempt \in AttemptsMade :
             attempt + 1 \in AttemptsMade =>
                \E seconds \in WaitsAfter(returned, attempt) : seconds > 0
        /\ \A a, b \in AttemptsMade :
             (a < b /\ call.resps[a + 1] = call.resps[b + 1]) =>
                \A wa \in WaitsAfter(returned, a), wb \in WaitsAfter(returned, b) :
                    wa < wb
        /\ \A attempt \in AttemptsMade :
             call.resps[attempt + 1] = "503" =>
                \A r \in Responses \ {"200", "503"} :
                    LET other == QueryHuggingfaceApi(
                                    TRUE, [call.resps EXCEPT ![attempt + 1] = r])
                    IN  \A w503 \in WaitsAfter(returned, attempt),
                           w \in WaitsAfter(other, attempt) : w < w503
        /\ \A attempt \in AttemptsMade :
             call.resps[attempt + 1] \in {"error_status", "other_status"} =>
                \/ returned.requests > attempt + 1
                \/ returned.result = "raise"

\* C30: when the last attempt fails the call fails at once: no sleep follows
\* the final attempt, whatever the failure (exception, error status or 503).
C30_NoWaitAfterLastAttempt ==
    (/\ call.method = "_query_huggingface_api"
     /\ returned.requests = max_retries
     /\ returned.result = "raise") =>
        WaitsAfter(returned, max_retries - 1) = {}

\* The caller has taken the result: the engine keeps nothing of the call.
ReturnToCaller ==
    /\ call # NoCall
    /\ call' = NoCall
    /\ returned' = NoCall
    /\ UNCHANGED <<wizard, recording, rerun, ui_message, typing, recorder, history>>

\* ------------------------------------------- evaluation (ai_engine.py:198)

\* Numbers of the evaluation are exact fractions: a rating is the integer
\* rating * RatingUnit(qa_pairs), a score reported with one decimal is an
\* integer number of tenths.  The code computes in binary floating point, whose
\* results differ from the exact ones by rounding errors of the last bit.

\* Skills a role may require: one of the keyword table, one that is also an
\* evaluation criterion (ai_engine.py:286-292, config.py:55-62).
SkillNames == {"Python", "Communication"}

\* Config.EVALUATION_CRITERIA
EVALUATION_CRITERIA ==
    <<"Technical Skills", "Communication", "Problem Solving",
      "Experience Relevance", "Cultural Fit", "Leadership Potential">>

\* Number of keywords _rate_skill_from_responses looks for per skill.
KeywordsOf(skill) == IF skill \in {"Python", "Communication"} THEN 5 ELSE 1

\* Roles evaluate_responses may be called with: their key skills, and whether
\* the catalogue entry has the optional experience_level (app.py:253).
EvaluatedRoles ==
    [key_skills : {<<>>, <<"Python">>, <<"Python", "Communication">>},
     has_experience_level : BOOLEAN]

\* Lengths of answers, in characters.
AnswerLengths == {0, 60, 120, 300, 600}

\* An answer as the evaluation reads it: its length and, per skill, the number
\* of the skill's keywords it contains.
EvaluatedAnswers ==
    {a \in [len : AnswerLengths, kw : [SkillNames -> 0..5]] :
        /\ a.kw["Python"] \in {0, 1, 4}
        /\ a.kw["Communication"] \in {0, 2}
        /\ \A skill \in SkillNames : a.kw[skill] <= KeywordsOf(skill)
        /\ a.len = 0 => \A skill \in SkillNames : a.kw[skill] = 0}

\* Number of answers of an evaluated interview.
MaxAnswers == 2

EvaluatedQAPairs == UNION {[1..n -> EvaluatedAnswers] : n \in 0..MaxAnswers}

\* What a call meets outside its arguments: the backend asked for the summary
\* (its text, or a failure) and the clock read for evaluation_date.
EvaluationEnvironments ==
    [summary : {"text A", "text B", "raise"}, clock : {1, 2}]

Min(a, b) == IF a < b THEN a ELSE b

Max(a, b) == IF a > b THEN a ELSE b

RECURSIVE Sum(_)
Sum(numbers) ==
    IF numbers = <<>> THEN 0 ELSE Head(numbers) + Sum(Tail(numbers))

\* The integer that stands for the rating 1.0 over the answers qa_pairs.
RatingUnit(qa) == 300 * Max(Len(qa), 1)

\* Tenths of a point one answer adds to the score of a skill.
AnswerScore(skill, answer) ==
    (IF answer.kw[skill] > 0 THEN Min(answer.kw[skill] * 3, 10) ELSE 0)
    + (IF answer.len > 100 THEN 2 ELSE 0)

\* _rate_skill_from_responses without the upper clamp.
RateSkillUnclamped(skill, qa) ==
    IF Len(qa) = 0 THEN "ZeroDivisionError"
    ELSE LET score == Sum([i \in 1..Len(qa) |-> AnswerScore(skill, qa[i])])
         IN  Max(RatingUnit(qa), RatingUnit(qa) + 120 * score)

\* _rate_skill_from_responses; it divides by len(qa_pairs).
RateSkillFromResponses(skill, qa) ==
    IF Len(qa) = 0 THEN "ZeroDivisionError"
    ELSE LET score == Sum([i \in 1..Len(qa) |-> AnswerScore(skill, qa[i])])
             normalized_score == RatingUnit(qa) + 120 * score
         IN  Min(5 * RatingUnit(qa), Max(RatingUnit(qa), normalized_score))

\* _rate_criteria_from_responses without the cap of the average length.
RateCriteriaUncapped(criteria, qa) ==
    LET n == Len(qa)
        total_length == Sum([i \in 1..Len(qa) |-> qa[i].len])
    IN  IF n = 0 THEN RatingUnit(qa)
        ELSE IF total_length > 200 * n
             THEN 1200 * n + (total_length - 200 * n)
        ELSE IF total_length > 100 * n
             THEN 900 * n + 3 * (total_length - 100 * n)
        ELSE IF total_length > 50 * n
             THEN 600 * n + 6 * (total_length - 50 * n)
        ELSE 300 * n + 6 * total_length

\* _rate_criteria_from_responses
RateCriteriaFromResponses(criteria, qa) ==
    LET n == Len(qa)
        total_length == Sum([i \in 1..Len(qa) |-> qa[i].len])
    IN  IF n = 0 THEN RatingUnit(qa)
        ELSE IF total_length > 200 * n
             THEN 1200 * n + (Min(total_length, 500 * n) - 200 * n)
        ELSE IF total_length > 100 * n
             THEN 900 * n + 3 * (total_length - 100 * n)
        ELSE IF total_length > 50 * n
             THEN 600 * n + 6 * (total_length - 50 * n)
        ELSE 300 * n + 6 * total_length

Raised(error) == [raised |-> TRUE, error |-> error]

Returned(value) == [raised |-> FALSE, value |-> value]

\* _evaluate_skills: the ratings in the order the dictionary holds them, the
\* key skills first, then the criteria that are not yet rated.
EvaluateSkills(role, qa) ==
    LET skills == role.key_skills
        rated == {skills[i] : i \in 1..Len(skills)}
        criteria == SelectSeq(EVALUATION_CRITERIA, LAMBDA c : c \notin rated)
    IN
    IF skills # <<>> /\ Len(qa) = 0 THEN Raised("ZeroDivisionError")
    ELSE Returned(
           [i \in 1..Len(skills) |->
               [skill |-> skills[i],
                rating |-> RateSkillFromResponses(skills[i], qa)]]
           \o [i \in 1..Len(criteria) |->
               [skill |-> criteria[i],
                rating |-> RateCriteriaFromResponses(criteria[i], qa)]])

SkillsOf(ratings) == [i \in 1..Len(ratings) |-> ratings[i].skill]

\* _generate_recommendations, of the score total / (count * unit).
GenerateRecommendations(total, count, unit, skill_ratings) ==
    LET strengths ==
            SelectSeq(skill_ratings, LAMBDA r : r.rating >= 4 * unit)
        weaknesses ==
            SelectSeq(skill_ratings, LAMBDA r : 2 * r.rating < 5 * unit)
    IN  << [text |-> IF total >= 4 * count * unit
                        THEN "Strong candidate - Recommend for next round"
                     ELSE IF total >= 3 * count * unit
                        THEN "Good candidate - Consider for next round with reservations"
                     ELSE "May not be the right fit for this role",
            skills |-> <<>>] >>
        \o (IF strengths # <<>>
            THEN << [text |-> "Key strengths",
                     skills |-> Take(SkillsOf(strengths), 3)] >>
            ELSE <<>>)
        \o (IF weaknesses # <<>>
            THEN << [text |-> "Areas for development",
                     skills |-> Take(SkillsOf(weaknesses), 3)] >>
            ELSE <<>>)

\* The score cut to one decimal instead of rounded.
TruncateTenths(total, count) == (10 * total) \div count

\* round(total / count, 1) in tenths, of a total counted in 1/unit; a value
\* halfway between two tenths goes to the even one.
RoundTenths(total, count) ==
    LET q == (10 * total) \div count
        r == (10 * total) % count
    IN  IF 2 * r > count \/ (2 * r = count /\ q % 2 = 1) THEN q + 1 ELSE q

\* The report _generate_evaluation_report builds once it has its summary, or
\* the exception of the ratings.  overall_score is in tenths; a rating is
\* rating / unit.
ReportWith(summary, role, qa, env) ==
    LET skills == EvaluateSkills(role, qa)
    IN  IF skills.raised THEN skills
        ELSE LET skill_ratings == skills.value
                 unit == RatingUnit(qa)
                 count == Len(skill_ratings)
                 total == Sum([i \in 1..count |-> skill_ratings[i].rating])
             IN  Returned(
                   [overall_score |->
                        IF count = 0 THEN 0
                        ELSE RoundTenths(total, count * unit),
                    summary |-> summary,
                    skill_ratings |->
                        [i \in 1..count |->
                            [skill |-> skill_ratings[i].skill,
                             rating |-> skill_ratings[i].rating,
                             unit |-> unit]],
                    recommendations |->
                        GenerateRecommendations(total, count, unit,
                                                skill_ratings),
                    evaluation_date |-> env.clock,
                    total_questions |-> Len(qa)])

\* _generate_evaluation_report without the try around the summary query: a
\* failure of the backend fails the report.
GenerateReportSummaryUncaught(role, qa, env) ==
    IF ~role.has_experience_level THEN Raised("KeyError")
    ELSE IF env.summary = "raise" THEN Raised("Exception")
    ELSE ReportWith(env.summary, role, qa, env)

\* _generate_evaluation_report: the report, or the exception it raises.
GenerateEvaluationReport(role, qa, env) ==
    IF ~role.has_experience_level THEN Raised("KeyError")
    ELSE ReportWith(IF env.summary = "raise"
                    THEN "Unable to generate AI summary. Manual review recommended."
                    ELSE env.summary,
                    role, qa, env)

\* _get_fallback_evaluation
GetFallbackEvaluation(role, qa, env) ==
    [overall_score |-> 30,
     summary |-> "Evaluation generated using fallback method. Manual review recommended.",
     skill_ratings |->
         [i \in 1..Len(role.key_skills) |->
             [skill |-> role.key_skills[i], rating |-> 3, unit |-> 1]],
     recommendations |->
         << [text |-> "Manual evaluation required", skills |-> <<>>],
            [text |-> "Review responses manually", skills |-> <<>>] >>,
     evaluation_date |-> env.clock,
     total_questions |-> Len(qa)]

\* evaluate_responses without its try: the report's exception leaves it.
EvaluateResponsesUncaught(role, qa, env) ==
    GenerateEvaluationReport(role, qa, env)

\* evaluate_responses
EvaluateResponses(role, qa, env) ==
    LET report == GenerateEvaluationReport(role, qa, env)
    IN  IF report.raised
        THEN Returned(GetFallbackEvaluation(role, qa, env))
        ELSE report

CallEvaluateResponses ==
    /\ call = NoCall
    /\ \E role \in EvaluatedRoles, qa \in EvaluatedQAPairs,
          env \in EvaluationEnvironments :
         /\ call' = [method |-> "evaluate_responses",
                     role |-> role, qa_pairs |-> qa, env |-> env]
         /\ returned' = EvaluateResponses(role, qa, env)
    /\ UNCHANGED <<wizard, recording, rerun, ui_message, typing, recorder, history>>

\* The evaluation of the call fails internally: the role has no
\* experience_level, or a key skill is rated over no answers.
FailsInternally ==
    \/ ~call.role.has_experience_level
    \/ call.role.key_skills # <<>> /\ call.qa_pairs = <<>>

\* C15: evaluate_responses never raises; when the evaluation fails internally
\* (an empty qa_pairs list included) it returns the fallback evaluation, with
\* overall_score 3.0 and every key skill of the role rated 3.0.
C15_FallbackOnInternalFailure ==
    call.method = "evaluate_responses" =>
        /\ ~returned.raised
        /\ FailsInternally =>
             /\ returned.value.overall_score = 30
             /\ SkillsOf(returned.value.skill_ratings) = call.role.key_skills
             /\ \A i \in 1..Len(returned.value.skill_ratings) :
                  LET r == returned.value.skill_ratings[i]
                  IN  r.rating = 3 * r.unit

C15_Witness ==
    /\ call.method = "evaluate_responses"
    /\ call.qa_pairs = <<>>
    /\ call.role.has_experience_level
    /\ Len(call.role.key_skills) = 2
    /\ ~returned.raised
    /\ returned.value.overall_score = 30

\* C16: for every role and every list of QA pairs (any lengths, any keyword
\* occurrences, also no answers) the overall_score of the returned evaluation
\* is at least 0 and at most 5.
C16_OverallScoreInRange ==
    call.method = "evaluate_responses" =>
        /\ returned.value.overall_score >= 0
        /\ returned.value.overall_score <= 50

\* The highest score is reached by answers that are long and full of keywords.
C16_Witness ==
    /\ call.method = "evaluate_responses"
    /\ call.qa_pairs # <<>>
    /\ ~FailsInternally
    /\ returned.value.overall_score = 50

\* C17: every rating in skill_ratings of a returned evaluation, of each key
\* skill of the role and of each evaluation criterion, lies within [1.0, 5.0],
\* for all answer lengths and keyword counts.
C17_RatingsInRange ==
    call.method = "evaluate_responses" =>
        \A i \in 1..Len(returned.value.skill_ratings) :
            LET r == returned.value.skill_ratings[i]
            IN  r.unit <= r.rating /\ r.rating <= 5 * r.unit

\* Answers whose keyword score alone would pass 5.0: the clamp acts.
C17_Witness ==
    /\ call.method = "evaluate_responses"
    /\ ~FailsInternally
    /\ call.role.key_skills = <<"Python">>
    /\ Len(call.qa_pairs) = MaxAnswers
    /\ \A i \in 1..Len(call.qa_pairs) :
         call.qa_pairs[i].kw["Python"] = 4 /\ call.qa_pairs[i].len > 100
    /\ returned.value.skill_ratings[1].rating
         = 5 * returned.value.skill_ratings[1].unit
    /\ Len(returned.value.skill_ratings) = 7

\* The sum of the ratings of an evaluation, in 1/unit.
TotalRating(evaluation) ==
    Sum([i \in 1..Len(evaluation.skill_ratings) |->
            evaluation.skill_ratings[i].rating])

\* The score an answer gets when it is evaluated alone, in 1/(count * unit):
\* the evaluation assigns no other score to a single answer.
AnswerQuality(role, answer) ==
    LET skills == EvaluateSkills(role, <<answer>>).value
    IN  [total |-> Sum([i \in 1..Len(skills) |-> skills[i].rating]),
         count |-> Len(skills) * RatingUnit(<<answer>>)]

\* C18 as stated: overall_score is the mean of the per-answer quality scores
\* over all answers, rounded to one decimal, and 0 when there are no answers.
C18_MeanOverAnswers ==
    call.method = "evaluate_responses" =>
        LET qa == call.qa_pairs
            quality == [i \in 1..Len(qa) |-> AnswerQuality(call.role, qa[i])]
        IN  /\ qa = <<>> => returned.value.overall_score = 0
            /\ qa # <<>> =>
                 returned.value.overall_score =
                     RoundTenths(Sum([i \in 1..Len(qa) |-> quality[i].total]),
                                 Len(qa) * quality[1].count)

\* C18 amended: overall_score is the mean of the ratings in skill_ratings,
\* rounded to one decimal; it is 3.0 when the fallback rates no skill; with no
\* answers it is 3.0 (the fallback) or 1.0 (a role without key skills).
C18_MeanOfRatings ==
    call.method = "evaluate_responses" =>
        LET evaluation == returned.value
            count == Len(evaluation.skill_ratings)
        IN  /\ count = 0 => evaluation.overall_score = 30
            /\ count > 0 =>
                 LET scale == count * evaluation.skill_ratings[1].unit
                     diff == 10 * TotalRating(evaluation)
                               - evaluation.overall_score * scale
                 IN  2 * diff <= scale /\ 2 * diff >= -scale
            /\ call.qa_pairs = <<>> =>
                 evaluation.overall_score =
                     IF FailsInternally THEN 30 ELSE 10

\* A report whose mean is not a whole number of tenths: the rounding acts.
C18_Witness ==
    /\ call.method = "evaluate_responses"
    /\ ~FailsInternally
    /\ Len(call.qa_pairs) = MaxAnswers
    /\ LET evaluation == returned.value
           scale == Len(evaluation.skill_ratings)
                      * evaluation.skill_ratings[1].unit
       IN  2 * ((10 * TotalRating(evaluation)) % scale) > scale

\* What an evaluation says beside its summary and its date.
Scores(evaluation) ==
    [overall_score |-> evaluation.overall_score,
     skill_ratings |-> evaluation.skill_ratings,
     recommendations |-> evaluation.recommendations,
     total_questions |-> evaluation.total_questions]

\* C19 as stated: a second call with the same role and the same qa_pairs,
\* whatever the backend and the clock do then, returns the same evaluation.
C19_SameArgumentsSameEvaluation ==
    call.method = "evaluate_responses" =>
        \A env \in EvaluationEnvironments :
            EvaluateResponses(call.role, call.qa_pairs, env) = returned

\* C19 amended: a second call with the same role and the same qa_pairs returns
\* the same overall_score, skill_ratings, recommendations and total_questions;
\* the summary is the backend's and the evaluation_date the clock's.
C19_SameArgumentsSameScores ==
    call.method = "evaluate_responses" =>
        \A env \in EvaluationEnvironments :
            LET again == EvaluateResponses(call.role, call.qa_pairs, env)
            IN  /\ ~again.raised
                /\ Scores(again.value) = Scores(returned.value)

\* A report made while the backend fails; a second call can meet a backend
\* that answers.
C19_Witness ==
    /\ call.method = "evaluate_responses"
    /\ ~FailsInternally
    /\ call.qa_pairs # <<>>
    /\ call.env.summary = "raise"
    /\ returned.value.summary
         = "Unable to generate AI summary. Manual review recommended."
    /\ \E env \in EvaluationEnvironments :
         EvaluateResponses(call.role, call.qa_pairs, env).value.summary
             # returned.value.summary

\* The score-tier recommendation of a score reported in tenths.
TierOf(overall_score) ==
    IF overall_score >= 40 THEN "Strong candidate - Recommend for next round"
    ELSE IF overall_score >= 30
         THEN "Good candidate - Consider for next round with reservations"
    ELSE "May not be the right fit for this role"

\* C20: the first entry of recommendations is the score-tier recommendation of
\* the overall_score reported in the same evaluation: "Strong candidate" exactly
\* when it is at least 4.0, "Good candidate" exactly from 3.0 to below 4.0, and
\* "May not be the right fit" otherwise.
C20_FirstRecommendationIsTier ==
    call.method = "evaluate_responses" =>
        returned.value.recommendations[1].text
            = TierOf(returned.value.overall_score)

NextEngine ==
    \/ CallQueryHuggingfaceApi
    \/ CallGenerateInterviewContent
    \/ CallEvaluateResponses
    \/ ReturnToCaller

SpecEngine == InitEngine /\ [][NextEngine]_vars


\* ------------------------------------- AudioRecorder (audio_handler.py:15)

\* Frames the WebRTC worker delivers in one behaviour.
MaxFrames == 3

InitRecorder == Init

RecorderIdle ==
    UNCHANGED <<wizard, recording, rerun, ui_message, typing, call, returned,
                history>>

\* audio_frame_callback, line 26: a frame arrives and the flag is read.
CallbackReadsFlag ==
    /\ recorder.cb = "idle"
    /\ recorder.arrived < MaxFrames
    /\ recorder' = [recorder EXCEPT
                      !.arrived = @ + 1,
                      !.cb = IF recorder.is_recording THEN "put" ELSE "idle"]
    /\ RecorderIdle

\* audio_frame_callback, lines 27-28: the frame is converted and enqueued.
CallbackPuts ==
    /\ recorder.cb = "put"
    /\ recorder' = [recorder EXCEPT
                      !.audio_queue = Append(@, recorder.arrived),
                      !.pending = IF recorder.is_recording
                                  THEN Append(@, recorder.arrived) ELSE @,
                      !.cb = "idle"]
    /\ RecorderIdle

\* start, line 44.
StartSetsFlag ==
    /\ recorder.main = "idle"
    /\ recorder' = [recorder EXCEPT !.is_recording = TRUE, !.main = "start_time"]
    /\ RecorderIdle

\* start, line 45: the toolkit's clock returns, or the call raises.
StartReadsClock ==
    /\ recorder.main = "start_time"
    /\ \E next \in {"start_drain", "idle"} :
         recorder' = [recorder EXCEPT !.main = next]
    /\ RecorderIdle

\* start, lines 46-50: one turn of the loop that empties the queue.
StartDrains ==
    /\ recorder.main = "start_drain"
    /\ recorder' = IF recorder.audio_queue = <<>>
                   THEN [recorder EXCEPT !.main = "idle"]
                   ELSE [recorder EXCEPT !.audio_queue = Tail(@)]
    /\ RecorderIdle

\* stop_and_get, line 54.
StopClearsFlag ==
    /\ recorder.main = "idle"
    /\ recorder' = [recorder EXCEPT !.is_recording = FALSE, !.main = "stop_time"]
    /\ RecorderIdle

\* stop_and_get, lines 55-56: the clock returns and frames = [], or it raises.
StopReadsClock ==
    /\ recorder.main = "stop_time"
    /\ \/ recorder' = [recorder EXCEPT !.main = "stop_drain", !.frames = <<>>]
       \/ recorder' = [recorder EXCEPT !.main = "idle", !.result = "raised"]
    /\ RecorderIdle

\* stop_and_get, lines 57-61: one turn of the loop that collects the frames.
StopCollects ==
    /\ recorder.main = "stop_drain"
    /\ recorder.audio_queue # <<>>
    /\ recorder' = [recorder EXCEPT
                      !.frames = Append(@, Head(recorder.audio_queue)),
                      !.audio_queue = Tail(@)]
    /\ RecorderIdle

\* stop_and_get, lines 63-67: the queue is found empty and the call returns
\* None or the concatenated frames.
StopReturns ==
    /\ recorder.main = "stop_drain"
    /\ recorder.audio_queue = <<>>
    /\ recorder' = [recorder EXCEPT
                      !.main = "idle",
                      !.result = IF recorder.frames = <<>> THEN "None" ELSE "audio",
                      !.audio = recorder.frames,
                      !.pending = <<>>]
    /\ RecorderIdle

NextRecorder ==
    \/ CallbackReadsFlag
    \/ CallbackPuts
    \/ StartSetsFlag
    \/ StartReadsClock
    \/ StartDrains
    \/ StopClearsFlag
    \/ StopReadsClock
    \/ StopCollects
    \/ StopReturns

SpecRecorder == InitRecorder /\ [][NextRecorder]_vars

FramesOf(seq) == {seq[i] : i \in 1..Len(seq)}

\* C26: every frame the callback enqueues while _is_recording is true is
\* included, in arrival order, in the audio the next stop_and_get returns.
C26_NoFrameLost ==
    [][StopReturns =>
         /\ FramesOf(recorder.pending) \subseteq FramesOf(recorder'.audio)
         /\ \A i, j \in 1..Len(recorder'.audio) :
              i < j => recorder'.audio[i] < recorder'.audio[j]]_vars

====
